---- MODULE Spec2Model ----
(***************************************************************************)
(* GoldLens factor engine (src/factor_engine.py): the attribution pipeline *)
(*   aggregate_factor_scores_by_day -> create_factor_timeseries            *)
(*   -> align_with_price -> calculate_factor_influence_curve               *)
(*   -> get_top_factors                                                    *)
(* as run by GoldAnalyzer.run_full_analysis (src/gold_analyzer.py:40-143). *)
(*                                                                         *)
(* Number representation (exact fixed point instead of binary floats):     *)
(*   strength, confidence, importance : tenths        (8    = 0.8)         *)
(*   impact score                     : thousandths   (432  = 0.432)       *)
(*   signed_score, score, intensity   : 1e-4 units    (3456 = 0.3456)      *)
(*   a quotient (normalized_influence, price_change_pct) is the exact      *)
(*   fraction [num, den]; den = 0 stands for NaN.                          *)
(* Dates are day numbers 1, 2, ...; a pandas frame is the sequence of its  *)
(* rows in frame order, an empty frame is << >>.  A timestamp is its day   *)
(* and, where the code depends on it, its time of day and zone:            *)
(* start_date and end_date are the days of the range and start_time the    *)
(* time and zone they are both written with; price_date_dtype is the dtype *)
(* of the 'date' column of the price table.  news_list is the number of    *)
(* news items fetched and analysis the position of run_full_analysis:      *)
(* "step1" before its guards, "step4" in the pipeline, then "empty" (it     *)
(* returned {}), "results" (it returned the results) or "raised".           *)
(***************************************************************************)
EXTENDS Integers, Sequences, FiniteSets, TLC

VARIABLES pc, fp_tie_up, events, impact_scores, daily_factors,
          start_date, end_date, factor_ts, price_data, aligned_data,
          window_days, influence_curve,
          top_n, recent_days, argsort_ties, top_factors,
          start_time, price_date_dtype, run, prev_run,
          news_list, analysis

vars == <<pc, fp_tie_up, events, impact_scores, daily_factors,
          start_date, end_date, factor_ts, price_data, aligned_data,
          window_days, influence_curve,
          top_n, recent_days, argsort_ties, top_factors,
          start_time, price_date_dtype, run, prev_run,
          news_list, analysis>>

----------------------------------------------------------------------------
(* Bounds of the model *)

MaxDay == 3
MaxEvents == 2
MaxTags == 2
MaxWindow == 2
MaxRuns == 2

----------------------------------------------------------------------------
(* Generic helpers *)

Abs(x) == IF x < 0 THEN -x ELSE x

RECURSIVE SumSeq(_)
SumSeq(s) == IF s = << >> THEN 0 ELSE Head(s) + SumSeq(Tail(s))

RECURSIVE MaxSeq(_)
MaxSeq(s) ==
  IF Len(s) = 1 THEN s[1]
  ELSE LET m == MaxSeq(Tail(s)) IN IF s[1] >= m THEN s[1] ELSE m

RECURSIVE Flatten(_)
Flatten(ss) == IF ss = << >> THEN << >> ELSE Head(ss) \o Flatten(Tail(ss))

SeqsUpTo(S, n) == UNION {[1..k -> S] : k \in 0..n}

----------------------------------------------------------------------------
(* The factor taxonomy (factor_config.json, loaded once by __init__) *)

\* factor codes in ascending (lexicographic) order
FactorCodes == <<"A1_REAL_YIELD", "A2_POLICY_PATH">>

CodeRank(f) == CHOOSE i \in 1..Len(FactorCodes) : FactorCodes[i] = f

\* config['event_types'][t]['default_importance'], in tenths
event_types == [t \in {"CENTRAL_BANK_DECISION"} |-> 9]

\* the fallback 0.5 of the scorer, in tenths
DefaultHalf == 5

----------------------------------------------------------------------------
(* calculate_event_impact_score *)

\* round(x, 3) of x = num / (1000 * den), as thousandths: the nearest
\* multiple of 0.001.  A decimal tie k.5 is not a tie of the binary double
\* the code rounds; the double lies just above or just below it, which
\* fp_tie_up records (a property of the platform's arithmetic, fixed for a
\* run).
RoundMilli(num, den) ==
  LET q == num \div den
      r == num - q * den
  IN  IF 2 * r > den \/ (2 * r = den /\ fp_tie_up) THEN q + 1 ELSE q

type_importance_NoFallback(event) ==
  IF event.event_type \in DOMAIN event_types
  THEN event_types[event.event_type] ELSE 0

type_importance(event) ==
  IF event.event_type \in DOMAIN event_types
  THEN event_types[event.event_type] ELSE DefaultHalf

max_strength(factor_tags) ==
  IF factor_tags # << >>
  THEN MaxSeq([i \in 1..Len(factor_tags) |-> factor_tags[i].strength])
  ELSE DefaultHalf

\* np.mean of the confidences as the fraction sum / count (0.5 = 5 / 1)
confidence_sum(factor_tags) ==
  IF factor_tags # << >>
  THEN SumSeq([i \in 1..Len(factor_tags) |-> factor_tags[i].confidence])
  ELSE DefaultHalf

confidence_count(factor_tags) ==
  IF factor_tags # << >> THEN Len(factor_tags) ELSE 1

\* type_importance * max_strength * avg_confidence * 1.0, rounded to 3 places
calculate_event_impact_score(event) ==
  RoundMilli(type_importance(event) * max_strength(event.factor_tags)
               * confidence_sum(event.factor_tags),
             confidence_count(event.factor_tags))

----------------------------------------------------------------------------
(* aggregate_factor_scores_by_day *)

\* pd.to_datetime(timestamp).date(): a well-formed timestamp gives its
\* calendar date as written; the empty string (also the default of a missing
\* key) parses to NaT, whose date() is NaT again; anything else raises.
NaT == 0

ParseRaises(timestamp) == timestamp.kind = "garbage"

ToDate(timestamp) == IF timestamp.kind = "iso" THEN timestamp.date ELSE NaT

signed_score_ElsePositive(polarity, impact_score, strength) ==
  IF polarity = "-" THEN -impact_score * strength
  ELSE impact_score * strength

signed_score(polarity, impact_score, strength) ==
  IF polarity = "+" THEN impact_score * strength
  ELSE IF polarity = "-" THEN -impact_score * strength
  ELSE 0

\* the signed score itself, taken for its magnitude
abs_score_NoAbs(s) == s

\* abs(signed_score) (line 107)
abs_score(s) == Abs(s)

\* the rows one event appends to `records` (lines 77-109)
EventRecords(event) ==
  IF ParseRaises(event.timestamp_utc) THEN << >>
  ELSE LET event_date == ToDate(event.timestamp_utc)
           impact_score == calculate_event_impact_score(event)
           tags == event.factor_tags
       IN  [j \in 1..Len(tags) |->
              LET s == signed_score(tags[j].polarity, impact_score,
                                    tags[j].strength)
              IN  [date |-> event_date, factor_code |-> tags[j].factor,
                   signed_score |-> s, abs_score |-> abs_score(s)]]

\* a `break` in place of the `continue` of line 83
RECURSIVE RawRecords_StopAtBadTimestamp(_)
RawRecords_StopAtBadTimestamp(evs) ==
  IF evs = << >> \/ ParseRaises(Head(evs).timestamp_utc) THEN << >>
  ELSE EventRecords(Head(evs)) \o RawRecords_StopAtBadTimestamp(Tail(evs))

\* the list `records` after the loop over the events
RawRecords(evs) == Flatten([i \in 1..Len(evs) |-> EventRecords(evs[i])])

KeyLess(a, b) ==
  \/ a[1] < b[1]
  \/ a[1] = b[1] /\ CodeRank(a[2]) < CodeRank(b[2])

RECURSIVE SortKeys(_)
SortKeys(S) ==
  IF S = {} THEN << >>
  ELSE LET m == CHOOSE x \in S : \A y \in S \ {x} : KeyLess(x, y)
       IN  <<m>> \o SortKeys(S \ {m})

\* groupby(['date', 'factor_code']): the keys in sorted order; rows whose
\* key holds a null (NaT) are dropped (dropna=True)
GroupKeys(records) ==
  SortKeys({<<records[i].date, records[i].factor_code>> :
              i \in {j \in 1..Len(records) : records[j].date # NaT}})

GroupRows(records, key) ==
  SelectSeq(records, LAMBDA r : r.date = key[1] /\ r.factor_code = key[2])

aggregate_factor_scores_by_day(evs) ==
  LET records == RawRecords(evs)
      keys == GroupKeys(records)
  IN  [k \in 1..Len(keys) |->
         LET g == GroupRows(records, keys[k])
         IN  [date |-> keys[k][1],
              factor_code |-> keys[k][2],
              score |-> SumSeq([i \in 1..Len(g) |-> g[i].signed_score]),
              intensity |-> SumSeq([i \in 1..Len(g) |-> g[i].abs_score]),
              event_count |-> Len(g)]]

\* the impact scores the loop computed (line 86), one per event; an event
\* skipped at line 83 has none
ScoresOfLoop(evs) ==
  [i \in 1..Len(evs) |->
     IF ParseRaises(evs[i].timestamp_utc)
     THEN [called |-> FALSE, value |-> 0]
     ELSE [called |-> TRUE, value |-> calculate_event_impact_score(evs[i])]]

----------------------------------------------------------------------------
(* create_factor_timeseries *)

RECURSIVE UniqueFrom(_, _)
UniqueFrom(s, seen) ==
  IF s = << >> THEN << >>
  ELSE IF Head(s) \in seen THEN UniqueFrom(Tail(s), seen)
  ELSE <<Head(s)>> \o UniqueFrom(Tail(s), seen \cup {Head(s)})

\* Series.unique(): the distinct values in order of first appearance
Unique(s) == UniqueFrom(s, {})

FactorColumn(df) == [i \in 1..Len(df) |-> df[i].factor_code]

\* pd.date_range(start, end, freq='D'); empty when end < start
DateRange(start, end) == [i \in 1..(end - start + 1) |-> start + i - 1]

\* pd.to_datetime of a calendar date (line 154): midnight, no time zone
Midnight == "00:00"

\* reindex(date_range, fill_value=0) of one factor's rows, at one date.  The
\* labels of date_range carry the time of day and zone of start_date, and a
\* record is found under a label its timestamp is equal to: the same day,
\* at midnight, without zone.
Reindexed(df, factor, d, time) ==
  LET hit == {i \in 1..Len(df) :
                /\ df[i].factor_code = factor
                /\ df[i].date = d
                /\ time = Midnight}
  IN  IF hit # {}
      THEN LET r == df[CHOOSE i \in hit : TRUE]
           IN  [date |-> d, factor_code |-> factor, score |-> r.score,
                intensity |-> r.intensity, event_count |-> r.event_count]
      ELSE [date |-> d, factor_code |-> factor, score |-> 0,
            intensity |-> 0, event_count |-> 0]

\* the grid of a date range that drops its last day (end exclusive)
FactorSeries_EndExclusive(df, factor, start, end, time) ==
  LET date_range == DateRange(start, end - 1)
  IN  [k \in 1..Len(date_range) |->
         Reindexed(df, factor, date_range[k], time)]

\* one factor's full series (lines 153-169)
FactorSeries(df, factor, start, end, time) ==
  LET date_range == DateRange(start, end)
  IN  [k \in 1..Len(date_range) |->
         Reindexed(df, factor, date_range[k], time)]

\* start and end are the days of start_date and end_date, time the time of
\* day and zone both are written with
create_factor_timeseries(df, start, end, time) ==
  IF df = << >> THEN << >>
  ELSE LET all_factors == Unique(FactorColumn(df))
       IN  Flatten([n \in 1..Len(all_factors) |->
                      FactorSeries(df, all_factors[n], start, end, time)])

----------------------------------------------------------------------------
(* align_with_price *)

\* a missing price (NaN)
NaN == -1

\* the left merge on date: the price of the row's date, NaN without a match
PriceOn(prices, d) ==
  LET hit == {i \in 1..Len(prices) : prices[i].date = d}
  IN  IF hit = {} THEN NaN ELSE prices[CHOOSE i \in hit : TRUE].gold_price

\* Series.ffill() over the whole column, in frame order
RECURSIVE FFill(_)
FFill(col) ==
  IF col = << >> THEN << >>
  ELSE LET n == Len(col)
           before == FFill(SubSeq(col, 1, n - 1))
       IN  Append(before,
                  IF col[n] # NaN \/ n = 1 THEN col[n] ELSE before[n - 1])

\* no fill at all
FilledPrices_NoFill(ts, prices) ==
  [i \in 1..Len(ts) |-> PriceOn(prices, ts[i].date)]

\* the gold_price column after merge and ffill (lines 196-203)
FilledPrices(ts, prices) ==
  FFill([i \in 1..Len(ts) |-> PriceOn(prices, ts[i].date)])

\* pct_change() * 100 from one price to the next; NaN is den = 0
PctChange(prev, cur) ==
  IF prev = NaN \/ cur = NaN THEN [num |-> 0, den |-> 0]
  ELSE [num |-> (cur - prev) * 100, den |-> prev]

\* groupby('factor_code')[...].pct_change(): the previous row of the same
\* factor, in frame order
PrevInGroup(ts, i) ==
  LET before == {j \in 1..(i - 1) : ts[j].factor_code = ts[i].factor_code}
  IN  IF before = {} THEN 0
      ELSE CHOOSE j \in before : \A k \in before : k <= j

\* an inner join: rows without a matching price date are dropped
MergedRows_InnerJoin(ts, prices) ==
  SelectSeq(ts, LAMBDA r : PriceOn(prices, r.date) # NaN)

\* the rows of the left merge: every row of factor_ts, in its order
MergedRows(ts, prices) == ts

\* the dtype of price_data['date'] after the call: line 193 assigns the
\* converted column to the caller's table, past the guard of line 188.
\* "datetime64" is a column of timestamps, with or without zone; the dates
\* of the price table are written with the time of day and zone of
\* start_date (gold_analyzer.py:96-97 takes the range from that column), so
\* that the merge pairs a dense row and a price row of the same day.
DateDtypeAfterAlign(ts_in, prices, dtype) ==
  IF ts_in = << >> \/ prices = << >> THEN dtype ELSE "datetime64"

align_with_price(ts_in, prices) ==
  IF ts_in = << >> \/ prices = << >> THEN << >>
  ELSE LET ts == MergedRows(ts_in, prices)
           gold == FilledPrices(ts, prices)
       IN  [i \in 1..Len(ts) |->
              LET p == PrevInGroup(ts, i)
              IN  [date |-> ts[i].date,
                   factor_code |-> ts[i].factor_code,
                   score |-> ts[i].score,
                   intensity |-> ts[i].intensity,
                   event_count |-> ts[i].event_count,
                   gold_price |-> gold[i],
                   price_change_pct |->
                     IF p = 0 THEN [num |-> 0, den |-> 0]
                     ELSE PctChange(gold[p], gold[i])]]

----------------------------------------------------------------------------
(* calculate_factor_influence_curve *)

\* 1e-6 is 1 / EpsInv of the unit (1e-4) intensities are counted in
EpsInv == 100

RECURSIVE SortByDate(_)
SortByDate(rows) ==
  IF rows = << >> THEN << >>
  ELSE LET i == CHOOSE k \in 1..Len(rows) :
                  \A j \in 1..Len(rows) :
                     rows[k].date < rows[j].date
                     \/ (rows[k].date = rows[j].date /\ k <= j)
       IN  <<rows[i]>> \o SortByDate(SubSeq(rows, 1, i - 1)
                                      \o SubSeq(rows, i + 1, Len(rows)))

\* an expanding sum: nothing ever leaves the window
RollingSum_Expanding(col, window, k) == SumSeq(SubSeq(col, 1, k))

\* rolling(window, min_periods=1).sum() at row k
RollingSum(col, window, k) ==
  LET lo == IF k - window + 1 < 1 THEN 1 ELSE k - window + 1
  IN  SumSeq(SubSeq(col, lo, k))

\* one factor's rows, sorted, with rolling_intensity (lines 231-240)
FactorRolling(aligned, factor, window) ==
  LET factor_data == SortByDate(SelectSeq(aligned,
                                   LAMBDA r : r.factor_code = factor))
      col == [k \in 1..Len(factor_data) |-> factor_data[k].intensity]
  IN  [k \in 1..Len(factor_data) |->
         [date |-> factor_data[k].date,
          factor_code |-> factor,
          rolling_intensity |-> RollingSum(col, window, k),
          score |-> factor_data[k].score,
          gold_price |-> factor_data[k].gold_price]]

\* the total over all dates: a normalization that is global, not daily
DailyTotal_AllDates(combined, d) ==
  SumSeq([i \in 1..Len(combined) |-> combined[i].rolling_intensity])

\* a total in which every row counts for at least one unit
DailyTotal_FloorPerFactor(combined, d) ==
  SumSeq([i \in 1..Len(combined) |->
            IF combined[i].date = d THEN combined[i].rolling_intensity + 1
            ELSE 0])

\* groupby('date')['rolling_intensity'].transform('sum') at one date
DailyTotal(combined, d) ==
  SumSeq([i \in 1..Len(combined) |->
            IF combined[i].date = d THEN combined[i].rolling_intensity
            ELSE 0])

\* a division by the daily total alone
Normalized_NoEpsilon(rolling_intensity, daily_total) ==
  [num |-> rolling_intensity * EpsInv, den |-> daily_total * EpsInv]

\* rolling_intensity / (daily_total + 1e-6)
Normalized(rolling_intensity, daily_total) ==
  [num |-> rolling_intensity * EpsInv, den |-> daily_total * EpsInv + 1]

calculate_factor_influence_curve(aligned, window) ==
  IF aligned = << >> THEN << >>
  ELSE LET factors == Unique(FactorColumn(aligned))
           combined == Flatten([n \in 1..Len(factors) |->
                                  FactorRolling(aligned, factors[n], window)])
       IN  [i \in 1..Len(combined) |->
              [date |-> combined[i].date,
               factor_code |-> combined[i].factor_code,
               normalized_influence |->
                 Normalized(combined[i].rolling_intensity,
                            DailyTotal(combined, combined[i].date)),
               rolling_intensity |-> combined[i].rolling_intensity,
               score |-> combined[i].score,
               gold_price |-> combined[i].gold_price]]

----------------------------------------------------------------------------
(* get_top_factors *)

\* Averages of fractions with different denominators outgrow machine
\* integers: a natural number is the sequence of its digits in base BigBase,
\* least significant first, without leading zeros (zero is << >>).
BigBase == 10000

RECURSIVE BigOf(_)
BigOf(n) == IF n = 0 THEN << >> ELSE <<n % BigBase>> \o BigOf(n \div BigBase)

RECURSIVE BigAddCarry(_, _, _)
BigAddCarry(a, b, carry) ==
  IF a = << >> /\ b = << >> THEN BigOf(carry)
  ELSE LET x == (IF a = << >> THEN 0 ELSE Head(a))
                + (IF b = << >> THEN 0 ELSE Head(b)) + carry
       IN  <<x % BigBase>>
             \o BigAddCarry(IF a = << >> THEN << >> ELSE Tail(a),
                            IF b = << >> THEN << >> ELSE Tail(b),
                            x \div BigBase)

BigAdd(a, b) == BigAddCarry(a, b, 0)

\* a times one digit m
RECURSIVE BigMulDigit(_, _, _)
BigMulDigit(a, m, carry) ==
  IF m = 0 THEN << >>
  ELSE IF a = << >> THEN BigOf(carry)
  ELSE LET x == Head(a) * m + carry
       IN  <<x % BigBase>> \o BigMulDigit(Tail(a), m, x \div BigBase)

RECURSIVE BigMul(_, _)
BigMul(a, b) ==
  IF a = << >> \/ b = << >> THEN << >>
  ELSE LET rest == BigMul(a, Tail(b))
       IN  BigAdd(BigMulDigit(a, Head(b), 0),
                  IF rest = << >> THEN << >> ELSE <<0>> \o rest)

RECURSIVE BigLess(_, _)
BigLess(a, b) ==
  IF Len(a) # Len(b) THEN Len(a) < Len(b)
  ELSE IF a = << >> THEN FALSE
  ELSE LET n == Len(a)
       IN  IF a[n] # b[n] THEN a[n] < b[n]
           ELSE BigLess(SubSeq(a, 1, n - 1), SubSeq(b, 1, n - 1))

\* fractions of naturals: [num, den] with den > 0
FracOf(q) == [num |-> BigOf(q.num), den |-> BigOf(q.den)]

FracAdd(a, b) ==
  [num |-> BigAdd(BigMul(a.num, b.den), BigMul(b.num, a.den)),
   den |-> BigMul(a.den, b.den)]

FracLess(a, b) == BigLess(BigMul(a.num, b.den), BigMul(b.num, a.den))

FracEq(a, b) == BigMul(a.num, b.den) = BigMul(b.num, a.den)

RECURSIVE FracSum(_)
FracSum(qs) ==
  IF qs = << >> THEN [num |-> << >>, den |-> BigOf(1)]
  ELSE FracAdd(FracOf(Head(qs)), FracSum(Tail(qs)))

\* Series.mean() of a non-empty column of fractions
Mean(qs) ==
  LET total == FracSum(qs)
  IN  [num |-> total.num, den |-> BigMul(total.den, BigOf(Len(qs)))]

MaxDate(rows) ==
  CHOOSE d \in {rows[i].date : i \in 1..Len(rows)} :
    \A i \in 1..Len(rows) : rows[i].date <= d

\* groupby('factor_code')['normalized_influence'].mean() of one group
GroupMean(recent, factor) ==
  LET group == SelectSeq(recent, LAMBDA r : r.factor_code = factor)
  IN  Mean([i \in 1..Len(group) |-> group[i].normalized_influence])

\* a place that turns around from one run to the next
PlaceIn_ChangingWithRun(codes, f) ==
  LET i == CHOOSE k \in 1..Len(codes) : codes[k] = f
  IN  IF run % 2 = 1 THEN i ELSE Len(codes) + 1 - i

\* the place of a code in a sequence of codes
PlaceIn(codes, f) == CHOOSE i \in 1..Len(codes) : codes[i] = f

\* groupby('factor_code')['normalized_influence'].mean(): one entry per
\* factor code of the rows, in ascending order of the codes
RECURSIVE GroupMeans(_, _)
GroupMeans(recent, codes) ==
  IF codes = << >> THEN << >>
  ELSE (IF \E i \in 1..Len(recent) : recent[i].factor_code = Head(codes)
        THEN <<[factor_code |-> Head(codes),
                avg_influence |-> GroupMean(recent, Head(codes))]>>
        ELSE << >>)
       \o GroupMeans(recent, Tail(codes))

\* sort_values(ascending=False): a comes before b when its average is
\* higher.  The default kind, quicksort, is not a stable sort: the order it
\* leaves equal averages in is the build's, given by the order ties of codes.
ComesBefore(ties, a, b) ==
  \/ FracLess(b.avg_influence, a.avg_influence)
  \/ /\ FracEq(a.avg_influence, b.avg_influence)
     /\ PlaceIn(ties, a.factor_code) < PlaceIn(ties, b.factor_code)

RECURSIVE InsertSorted(_, _, _)
InsertSorted(sorted, e, ties) ==
  IF sorted = << >> THEN <<e>>
  ELSE IF ComesBefore(ties, e, Head(sorted)) THEN <<e>> \o sorted
  ELSE <<Head(sorted)>> \o InsertSorted(Tail(sorted), e, ties)

RECURSIVE SortValues(_, _)
SortValues(factor_avg, ties) ==
  IF factor_avg = << >> THEN << >>
  ELSE InsertSorted(SortValues(Tail(factor_avg), ties), Head(factor_avg), ties)

\* Series.head(n): the first n rows; all but the last -n for a negative n
Head_n(s, n) ==
  LET len == IF n >= 0 THEN (IF n < Len(s) THEN n ELSE Len(s))
             ELSE (IF Len(s) + n > 0 THEN Len(s) + n ELSE 0)
  IN  SubSeq(s, 1, len)

\* a window that takes in the cutoff date itself
RecentRows_FromCutoff(curve, cutoff_date) ==
  SelectSeq(curve, LAMBDA r : r.date >= cutoff_date)

\* influence_curve[influence_curve['date'] > cutoff_date]
RecentRows(curve, cutoff_date) ==
  SelectSeq(curve, LAMBDA r : r.date > cutoff_date)

\* the ranking of a non-empty curve (lines 274-282)
RankRecent(curve, n, recent, ties) ==
  LET max_date == MaxDate(curve)
      cutoff_date == max_date - recent
      recent_rows == RecentRows(curve, cutoff_date)
      factor_avg == GroupMeans(recent_rows, FactorCodes)
  IN  Head_n(SortValues(factor_avg, ties), n)

\* a ranking that lists every factor of the taxonomy, at average 0, when
\* there is no curve
get_top_factors_DefaultRanking(curve, n, recent, ties) ==
  IF curve = << >>
  THEN Head_n([k \in 1..Len(FactorCodes) |->
                 [factor_code |-> FactorCodes[k],
                  avg_influence |-> [num |-> << >>, den |-> BigOf(1)]]], n)
  ELSE RankRecent(curve, n, recent, ties)

get_top_factors(curve, n, recent, ties) ==
  IF curve = << >> THEN << >> ELSE RankRecent(curve, n, recent, ties)

----------------------------------------------------------------------------
(* The pipeline of run_full_analysis, step 4 (src/gold_analyzer.py:92-110) *)

Aggregate ==
  /\ pc = "aggregate"
  /\ impact_scores' = ScoresOfLoop(events)
  /\ daily_factors' = aggregate_factor_scores_by_day(events)
  /\ pc' = "densify"
  /\ UNCHANGED <<fp_tie_up, events, start_date, end_date, factor_ts,
                 price_data, aligned_data, window_days, influence_curve,
                 top_n, recent_days, argsort_ties, top_factors,
                 start_time, price_date_dtype, run, prev_run,
                 news_list, analysis>>

Densify ==
  /\ pc = "densify"
  /\ factor_ts' = create_factor_timeseries(daily_factors, start_date,
                                           end_date, start_time)
  /\ pc' = "align"
  /\ UNCHANGED <<fp_tie_up, events, impact_scores, daily_factors, start_date,
                 end_date, price_data, aligned_data, window_days,
                 influence_curve, top_n, recent_days, argsort_ties,
                 top_factors, start_time, price_date_dtype, run, prev_run,
                 news_list, analysis>>

Align ==
  /\ pc = "align"
  /\ aligned_data' = align_with_price(factor_ts, price_data)
  /\ price_date_dtype' =
       DateDtypeAfterAlign(factor_ts, price_data, price_date_dtype)
  /\ pc' = "curve"
  /\ UNCHANGED <<fp_tie_up, events, impact_scores, daily_factors, start_date,
                 end_date, factor_ts, price_data, window_days,
                 influence_curve, top_n, recent_days, argsort_ties,
                 top_factors, start_time, run, prev_run,
                 news_list, analysis>>

Curve ==
  /\ pc = "curve"
  /\ influence_curve' =
       calculate_factor_influence_curve(aligned_data, window_days)
  /\ pc' = "rank"
  /\ UNCHANGED <<fp_tie_up, events, impact_scores, daily_factors, start_date,
                 end_date, factor_ts, price_data, aligned_data, window_days,
                 top_n, recent_days, argsort_ties, top_factors,
                 start_time, price_date_dtype, run, prev_run,
                 news_list, analysis>>

TopFactors ==
  /\ pc = "rank"
  /\ top_factors' =
       get_top_factors(influence_curve, top_n, recent_days, argsort_ties)
  /\ pc' = "done"
  /\ UNCHANGED <<fp_tie_up, events, impact_scores, daily_factors, start_date,
                 end_date, factor_ts, price_data, aligned_data, window_days,
                 influence_curve, top_n, recent_days, argsort_ties,
                 start_time, price_date_dtype, run, prev_run,
                 news_list, analysis>>

Next == Aggregate \/ Densify \/ Align \/ Curve \/ TopFactors

\* the tables of a run, kept to compare the next run with
Outputs ==
  [daily_factors |-> daily_factors,
   influence_curve |-> influence_curve,
   top_factors |-> top_factors]

\* one more run on the same objects: the events and the price table as the
\* run before left them
Rerun ==
  /\ pc = "done"
  /\ run < MaxRuns
  /\ run' = run + 1
  /\ prev_run' = Outputs
  /\ pc' = "aggregate"
  /\ UNCHANGED <<fp_tie_up, events, impact_scores, daily_factors, start_date,
                 end_date, factor_ts, price_data, aligned_data, window_days,
                 influence_curve, top_n, recent_days, argsort_ties,
                 top_factors, start_time, price_date_dtype,
                 news_list, analysis>>

NextRerun == Next \/ Rerun

----------------------------------------------------------------------------
(* run_full_analysis around the pipeline (src/gold_analyzer.py:40-143) *)

\* step 1 (lines 56-63): no market data, return {}
Step1 ==
  /\ analysis = "step1"
  /\ analysis' = IF price_data = << >> THEN "empty" ELSE "step2"
  /\ UNCHANGED <<pc, fp_tie_up, events, impact_scores, daily_factors,
                 start_date, end_date, factor_ts, price_data, aligned_data,
                 window_days, influence_curve, top_n, recent_days,
                 argsort_ties, top_factors, start_time, price_date_dtype,
                 run, prev_run, news_list>>

\* step 2 (lines 65-72): no news, return {}
Step2 ==
  /\ analysis = "step2"
  /\ analysis' = IF news_list = 0 THEN "empty" ELSE "step3"
  /\ UNCHANGED <<pc, fp_tie_up, events, impact_scores, daily_factors,
                 start_date, end_date, factor_ts, price_data, aligned_data,
                 window_days, influence_curve, top_n, recent_days,
                 argsort_ties, top_factors, start_time, price_date_dtype,
                 run, prev_run, news_list>>

\* step 3 (lines 74-82): no event extracted, return {}
Step3 ==
  /\ analysis = "step3"
  /\ analysis' = IF events = << >> THEN "empty" ELSE "step4"
  /\ UNCHANGED <<pc, fp_tie_up, events, impact_scores, daily_factors,
                 start_date, end_date, factor_ts, price_data, aligned_data,
                 window_days, influence_curve, top_n, recent_days,
                 argsort_ties, top_factors, start_time, price_date_dtype,
                 run, prev_run, news_list>>

\* step 4 (lines 92-110): the pipeline up to the influence curve
Step4 ==
  /\ analysis = "step4"
  /\ (Aggregate \/ Densify \/ Align \/ Curve)

\* The results (lines 120-128) read the dates of both tables as timestamps:
\* aligned_prices['date'].dt and influence_curve['date'].dt.  A column of
\* strings has no .dt (AttributeError), and the empty frame pd.DataFrame()
\* the stages return for empty input has no column 'date' (KeyError).
ResultsRaise(curve, dtype) == dtype # "datetime64" \/ curve = << >>

\* step 5 and the results (lines 113-143): the brief is built from the
\* events, the last prices and get_top_factors(influence_curve, 3, 7), which
\* is empty for an empty curve; the entries of the results are evaluated in
\* order, 'influence_curve' before 'top_factors'
Results ==
  /\ analysis = "step4"
  /\ pc = "rank"
  /\ IF ResultsRaise(influence_curve, price_date_dtype)
     THEN /\ analysis' = "raised"
          /\ UNCHANGED <<pc, top_factors>>
     ELSE /\ analysis' = "results"
          /\ top_factors' = get_top_factors(influence_curve, top_n,
                                            recent_days, argsort_ties)
          /\ pc' = "done"
  /\ UNCHANGED <<fp_tie_up, events, impact_scores, daily_factors, start_date,
                 end_date, factor_ts, price_data, aligned_data, window_days,
                 influence_curve, top_n, recent_days, argsort_ties,
                 start_time, price_date_dtype, run, prev_run, news_list>>

NextAnalysis == Step1 \/ Step2 \/ Step3 \/ Step4 \/ Results

----------------------------------------------------------------------------
(* Inputs *)

Days == 1..MaxDay

\* an ISO timestamp: date is the calendar date it is written with (what
\* Timestamp.date() returns), utc_date the UTC day of the instant; they
\* differ when the UTC offset it is written with carries the instant over
\* midnight ('...T23:30:00-05:00' is the next day in UTC)
IsoOffset(d, utc) == [kind |-> "iso", date |-> d, utc_date |-> utc]

\* written in UTC ('Z', '+00:00' or no offset)
Iso(d) == IsoOffset(d, d)

Garbage == [kind |-> "garbage", date |-> NaT, utc_date |-> NaT]
EmptyString == [kind |-> "empty", date |-> NaT, utc_date |-> NaT]

Tag(f, p, s, c) ==
  [factor |-> f, polarity |-> p, strength |-> s, confidence |-> c]

Event(t, ts, tags) ==
  [event_type |-> t, timestamp_utc |-> ts, factor_tags |-> tags]

\* start_date <= end_date
Ranges == {r \in Days \X Days : r[1] <= r[2]}

Windows == 1..MaxWindow

\* a price series: one row per date that has an entry, in date order; an
\* entry may hold no price (NaN)
PriceChoices == <<100, 110, NaN>>

RECURSIVE PriceRows(_, _)
PriceRows(f, d) ==
  IF d > MaxDay THEN << >>
  ELSE (IF f[d] = 0 THEN << >>
        ELSE <<[date |-> d, gold_price |-> PriceChoices[f[d]]]>>)
       \o PriceRows(f, d + 1)

PriceSeries == {PriceRows(f, 1) : f \in [Days -> 0..Len(PriceChoices)]}

\* a price on every day of the range
FullPrices == PriceRows([d \in Days |-> 1 + (d % 2)], 1)

InitWith(fps, batches, ranges, series, windows) ==
  /\ pc = "aggregate"
  /\ fp_tie_up \in fps
  /\ events \in batches
  /\ \E r \in ranges : start_date = r[1] /\ end_date = r[2]
  /\ price_data \in series
  /\ window_days \in windows
  /\ impact_scores = << >>
  /\ daily_factors = << >>
  /\ factor_ts = << >>
  /\ aligned_data = << >>
  /\ influence_curve = << >>
  /\ run = 1
  /\ prev_run = [daily_factors |-> << >>, influence_curve |-> << >>,
                 top_factors |-> << >>]

\* the engine's functions called one after the other, as step 4 of
\* run_full_analysis calls them: one news item behind every event
EngineCall ==
  /\ news_list = Len(events)
  /\ analysis = "step4"

\* the orders a permutation of the factor codes can leave ties in
TieOrders ==
  {p \in [1..Len(FactorCodes) -> {FactorCodes[i] : i \in 1..Len(FactorCodes)}] :
     \A i, j \in 1..Len(FactorCodes) : p[i] = p[j] => i = j}

InitRanker(top_ns, recents, ties) ==
  /\ top_n \in top_ns
  /\ recent_days \in recents
  /\ argsort_ties \in ties
  /\ top_factors = << >>

\* the ranking of the results (gold_analyzer.py:127): top_n = 5 and the
\* default recent_days = 7
RankerAsCalled == InitRanker({5}, {7}, {FactorCodes})

\* a range written with a time of day or a zone: the dates of the price
\* history that gold_analyzer.py:96-97 takes the range from are midnights
\* of the exchange's zone
StartTimes == {Midnight, "00:00-05:00"}

\* the 'date' column of a price table: timestamps ("datetime64"), or
\* strings and dates ("object")
DateDtypes == {"datetime64", "object"}

InitDates(times, dtypes) ==
  /\ start_time \in times
  /\ price_date_dtype \in dtypes

\* a range of calendar dates and a price table of timestamps
PlainDates == InitDates({Midnight}, {"datetime64"})

\* scorer: one event, every combination of type, strengths and confidences
ScoreTags ==
  {Tag(FactorCodes[1], "+", s, c) : s \in {0, 5, 8, 12}, c \in {5, 8, 9, 10}}

ScoreEvents ==
  {Event(t, Iso(1), tags) :
     t \in {"CENTRAL_BANK_DECISION", "OTHER_EVENT"},
     tags \in SeqsUpTo(ScoreTags, MaxTags)}

InitScore ==
  InitWith(BOOLEAN, {<<e>> : e \in ScoreEvents}, {<<1, MaxDay>>},
           {FullPrices}, {1})
  /\ EngineCall
  /\ RankerAsCalled
  /\ PlainDates

SpecScore == InitScore /\ [][Next]_vars

\* aggregator: batches of events with good and bad timestamps, carrying
\* none, one or two tags of every polarity (the last pair scores a decimal
\* tie, 0.3825)
AggTagSeqs ==
  LET a1 == FactorCodes[1]
      a2 == FactorCodes[2]
  IN  {<< >>,
       <<Tag(a1, "+", 8, 9)>>, <<Tag(a1, "-", 5, 9)>>,
       <<Tag(a1, "0", 8, 9)>>, <<Tag(a1, "?", 8, 9)>>,
       <<Tag(a2, "+", 8, 9)>>,
       <<Tag(a1, "+", 8, 9), Tag(a1, "-", 5, 9)>>,
       <<Tag(a1, "+", 8, 9), Tag(a2, "-", 5, 9)>>,
       <<Tag(a1, "-", 5, 9), Tag(a2, "+", 5, 8)>>}

AggEvents ==
  {Event("CENTRAL_BANK_DECISION", ts, tags) :
     ts \in {Iso(1), Iso(2), Garbage, EmptyString}, tags \in AggTagSeqs}

InitAgg ==
  InitWith(BOOLEAN, SeqsUpTo(AggEvents, MaxEvents), {<<1, MaxDay>>},
           {FullPrices}, {1})
  /\ EngineCall
  /\ RankerAsCalled
  /\ PlainDates

SpecAgg == InitAgg /\ [][Next]_vars

\* densifier: records of both factors on every day, every range, written
\* as calendar dates and as the price history writes its dates
OneTagEvents(tags) ==
  {Event("OTHER_EVENT", Iso(d), <<t>>) : d \in Days, t \in tags}

DenseEvents ==
  OneTagEvents({Tag(f, "+", 8, 9) : f \in {FactorCodes[1], FactorCodes[2]}})

InitDense ==
  InitWith({FALSE}, SeqsUpTo(DenseEvents, MaxEvents), Ranges,
           {FullPrices}, {1})
  /\ EngineCall
  /\ RankerAsCalled
  /\ InitDates(StartTimes, {"datetime64"})

SpecDense == InitDense /\ [][Next]_vars

\* aligner: one factor, two factors, two factors in descending code order;
\* every range and every price series, the empty one included
AlignBatches ==
  LET e(d, f) == Event("OTHER_EVENT", Iso(d), <<Tag(f, "+", 8, 9)>>)
  IN  {<<e(1, FactorCodes[1])>>,
       <<e(1, FactorCodes[1]), e(1, FactorCodes[2])>>,
       <<e(1, FactorCodes[2]), e(2, FactorCodes[1])>>}

InitAlign ==
  InitWith({FALSE}, AlignBatches, Ranges, PriceSeries, {1})
  /\ EngineCall
  /\ RankerAsCalled
  /\ InitDates({Midnight}, DateDtypes)

SpecAlign == InitAlign /\ [][Next]_vars

\* influence curve: intensities of 0 (polarity '0'), 0.001 and 0.01 per tag
CurveEvents ==
  OneTagEvents({Tag(f, v[1], v[2], v[3]) :
                  f \in {FactorCodes[1], FactorCodes[2]},
                  v \in {<<"0", 8, 9>>, <<"+", 1, 2>>, <<"+", 2, 5>>}})

InitCurve ==
  InitWith({FALSE}, SeqsUpTo(CurveEvents, MaxEvents),
           {<<1, MaxDay>>, <<2, MaxDay>>}, {FullPrices}, Windows)
  /\ EngineCall
  /\ RankerAsCalled
  /\ PlainDates

SpecCurve == InitCurve /\ [][Next]_vars

\* ranker: two factors with one tag weight on any days, so that averages
\* tie or differ; every window, cut-off length and list length
TopNs == {0, 1, 2, 5}

RecentDays == {0, 1, 2, 7}

RankEvents ==
  OneTagEvents({Tag(f, "+", 1, 2) : f \in {FactorCodes[1], FactorCodes[2]}})

InitRank ==
  InitWith({FALSE}, SeqsUpTo(RankEvents, MaxEvents), {<<1, MaxDay>>},
           {FullPrices}, Windows)
  /\ EngineCall
  /\ InitRanker(TopNs, RecentDays, TieOrders)
  /\ PlainDates

SpecRank == InitRank /\ [][Next]_vars

\* empty stages: batches of events that yield no record (unparseable
\* timestamp, no tag) next to one that does; every range; no price series
\* and a full one
EmptyEvents ==
  LET tag == Tag(FactorCodes[1], "+", 8, 9)
  IN  {Event("OTHER_EVENT", Garbage, <<tag>>),
       Event("OTHER_EVENT", EmptyString, <<tag>>),
       Event("OTHER_EVENT", Iso(1), << >>),
       Event("OTHER_EVENT", Iso(2), <<tag>>)}

InitEmpty ==
  InitWith({FALSE}, SeqsUpTo(EmptyEvents, MaxEvents), Ranges,
           {<< >>, FullPrices}, {1})
  /\ EngineCall
  /\ RankerAsCalled
  /\ PlainDates

SpecEmpty == InitEmpty /\ [][Next]_vars

\* repeated runs: the ranker's batches, rankings cut and uncut, the price
\* table with dates of either dtype; the run after the first starts from
\* the tables the first one left
InitTwice ==
  InitWith({FALSE}, SeqsUpTo(RankEvents, MaxEvents), {<<1, MaxDay>>},
           {FullPrices}, Windows)
  /\ EngineCall
  /\ InitRanker({1, 5}, {7}, TieOrders)
  /\ InitDates({Midnight}, DateDtypes)

SpecTwice == InitTwice /\ [][NextRerun]_vars

\* timestamps in UTC and with an offset west or east of it that puts the
\* written date one day before or after the UTC date
UtcTimestamps ==
  {Iso(d) : d \in Days}
    \cup {IsoOffset(d, d + 1) : d \in 1..(MaxDay - 1)}
    \cup {IsoOffset(d + 1, d) : d \in 1..(MaxDay - 1)}

UtcEvents ==
  {Event("OTHER_EVENT", ts, <<Tag(FactorCodes[1], "+", 8, 9)>>) :
     ts \in UtcTimestamps}

InitUtc ==
  InitWith({FALSE}, SeqsUpTo(UtcEvents, MaxEvents), {<<1, MaxDay>>},
           {FullPrices}, {1})
  /\ EngineCall
  /\ RankerAsCalled
  /\ PlainDates

SpecUtc == InitUtc /\ [][Next]_vars

\* signs: tags of every polarity with a strength that is negative, zero,
\* in range and above 1; batches of events with one tag, and single events
\* with several tags
SignTags ==
  {Tag(FactorCodes[1], p, st, 9) : p \in {"+", "-", "0"}, st \in {-5, 0, 8, 15}}

SignBatches ==
  SeqsUpTo({Event("OTHER_EVENT", Iso(1), <<t>>) : t \in SignTags}, MaxEvents)
    \cup {<<Event("OTHER_EVENT", Iso(1), tags)>> :
            tags \in SeqsUpTo(SignTags, MaxTags)}

InitSign ==
  InitWith(BOOLEAN, SignBatches, {<<1, MaxDay>>}, {FullPrices}, {1})
  /\ EngineCall
  /\ RankerAsCalled
  /\ PlainDates

SpecSign == InitSign /\ [][Next]_vars

\* run_full_analysis: events that yield a record and events that yield
\* none (no factor tag, a timestamp that does not parse); window_days = 7
\* (line 108); at least as many news items as events, since batch_extract
\* makes at most one event of a news item; the range is the span of the
\* price table (lines 96-97)
AnalysisWindow == 7

AnalysisEvents ==
  {Event("OTHER_EVENT", ts, tags) :
     ts \in {Iso(1), Iso(2), Garbage},
     tags \in {<< >>, <<Tag(FactorCodes[1], "+", 8, 9)>>,
               <<Tag(FactorCodes[2], "-", 5, 9)>>}}

AnalysisPrices == {<< >>, FullPrices, PriceRows([d \in Days |-> d % 2], 1)}

InitAnalysis ==
  /\ InitWith({FALSE}, SeqsUpTo(AnalysisEvents, MaxEvents), Ranges,
              AnalysisPrices, {AnalysisWindow})
  /\ IF price_data = << >> THEN start_date = 1 /\ end_date = 1
     ELSE /\ start_date = price_data[1].date
          /\ end_date = price_data[Len(price_data)].date
  /\ news_list \in Len(events)..(Len(events) + 1)
  /\ analysis = "step1"
  /\ RankerAsCalled
  /\ InitDates(StartTimes, {"datetime64"})

SpecAnalysis == InitAnalysis /\ [][NextAnalysis]_vars

----------------------------------------------------------------------------
(* Properties of the scorer and the aggregator *)

RECURSIVE SetSum(_, _)
SetSum(S, f) ==
  IF S = {} THEN 0
  ELSE LET x == CHOOSE y \in S : TRUE IN f[x] + SetSum(S \ {x}, f)

Aggregated == pc # "aggregate"

\* the tags of the batch, as <<event index, tag index>>
AllTags ==
  UNION {{<<i, j>> : j \in 1..Len(events[i].factor_tags)} :
           i \in 1..Len(events)}

\* the tags that bear on a (date, factor) pair
TagsOf(d, f) ==
  {ij \in AllTags :
     /\ events[ij[1]].timestamp_utc.kind = "iso"
     /\ events[ij[1]].timestamp_utc.date = d
     /\ events[ij[1]].factor_tags[ij[2]].factor = f}

\* the signed contribution of a tag, from the impact the loop computed for
\* its event
Contribution ==
  [ij \in AllTags |->
     LET tag == events[ij[1]].factor_tags[ij[2]]
         impact == impact_scores[ij[1]].value
     IN  CASE tag.polarity = "+" -> impact * tag.strength
           [] tag.polarity = "-" -> -(impact * tag.strength)
           [] OTHER -> 0]

AbsContribution == [ij \in AllTags |-> Abs(Contribution[ij])]

\* C7: every aggregated (date, factor_code) record has score = the sum and
\* intensity = the sum of absolute values of the signed contributions of the
\* tags with that factor on events of that date; a contribution is
\* impact*strength for '+', -impact*strength for '-' and 0 for any other
\* polarity, impact being the event's rounded score, computed once per event.
C7_ScoreAndIntensityAreSums ==
  Aggregated =>
    \A k \in 1..Len(daily_factors) :
      LET r == daily_factors[k]
          T == TagsOf(r.date, r.factor_code)
      IN  /\ T # {}
          /\ r.score = SetSum(T, Contribution)
          /\ r.intensity = SetSum(T, AbsContribution)

\* a record fed by two events, with a '+', a '-' and an unrecognized tag
C7_Witness ==
  /\ Aggregated
  /\ \E k \in 1..Len(daily_factors) :
       LET T == TagsOf(daily_factors[k].date, daily_factors[k].factor_code)
           pol(ij) == events[ij[1]].factor_tags[ij[2]].polarity
       IN  /\ \E a \in T, b \in T : a[1] # b[1]
           /\ \E a \in T : pol(a) = "+"
           /\ \E a \in T : pol(a) = "-"
           /\ \E a \in T : pol(a) = "?"

\* C8: the event_count of every aggregated record is the number of distinct
\* events of that date carrying a tag of that factor (an event with several
\* tags of the factor counts once).
C8_EventCountIsDistinctEvents ==
  Aggregated =>
    \A k \in 1..Len(daily_factors) :
      LET r == daily_factors[k]
      IN  r.event_count =
            Cardinality({ij[1] : ij \in TagsOf(r.date, r.factor_code)})

Parseable(event) == event.timestamp_utc.kind = "iso"

\* C9: events whose timestamp does not parse to a date (malformed, empty or
\* missing) raise nothing and contribute nothing: the records are those of
\* the batch without these events, every record stems from a parseable event
\* and every tag of a parseable event is in a record.
C9_UnparseableEventsAreSkipped ==
  Aggregated =>
    /\ daily_factors =
         aggregate_factor_scores_by_day(SelectSeq(events, Parseable))
    /\ \A k \in 1..Len(daily_factors) :
         /\ daily_factors[k].date \in Days
         /\ TagsOf(daily_factors[k].date, daily_factors[k].factor_code) # {}
    /\ \A ij \in AllTags :
         Parseable(events[ij[1]]) =>
           \E k \in 1..Len(daily_factors) :
             /\ daily_factors[k].date = events[ij[1]].timestamp_utc.date
             /\ daily_factors[k].factor_code =
                  events[ij[1]].factor_tags[ij[2]].factor

\* a malformed timestamp first, then an event that is aggregated
C9_Witness ==
  /\ Aggregated
  /\ Len(events) = 2
  /\ events[1].timestamp_utc.kind = "garbage"
  /\ events[1].factor_tags # << >>
  /\ Parseable(events[2])
  /\ daily_factors # << >>

\* C10: the score is type_importance * max_strength * avg_confidence * 1.0
\* rounded to the nearest thousandth, with the fallback 0.5 for an unknown
\* type, and for max_strength and avg_confidence of an event without tags;
\* it lies in [0, 1] when importance, strengths and confidences do.
C10_ScoreFormula ==
  Aggregated =>
    \A i \in 1..Len(events) :
      impact_scores[i].called =>
        LET e == events[i]
            tags == e.factor_tags
            v == impact_scores[i].value
            importance == IF e.event_type = "CENTRAL_BANK_DECISION"
                          THEN 9 ELSE 5
            strengths == {tags[j].strength : j \in 1..Len(tags)}
            maxs == IF tags = << >> THEN 5
                    ELSE CHOOSE x \in strengths : \A y \in strengths : y <= x
            n == IF tags = << >> THEN 1 ELSE Len(tags)
            csum == IF tags = << >> THEN 5
                    ELSE SetSum(1..Len(tags),
                                [j \in 1..Len(tags) |-> tags[j].confidence])
            inrange == \A j \in 1..Len(tags) :
                          /\ tags[j].strength \in 0..10
                          /\ tags[j].confidence \in 0..10
        IN  /\ 2 * Abs(v * n - importance * maxs * csum) <= n
            /\ inrange => v \in 0..1000

\* an event of an unknown type with two tags of different strengths whose
\* product is a decimal tie
C10_Witness ==
  /\ Aggregated
  /\ \E i \in 1..Len(events) :
       LET tags == events[i].factor_tags
       IN  /\ impact_scores[i].called
           /\ events[i].event_type # "CENTRAL_BANK_DECISION"
           /\ Len(tags) = 2
           /\ tags[1].strength < tags[2].strength
           /\ (5 * tags[2].strength
                 * (tags[1].confidence + tags[2].confidence)) % 2 = 1
           /\ impact_scores[i].value > 0

----------------------------------------------------------------------------
(* Properties of the densifier *)

Densified == pc \in {"align", "curve", "rank", "done"}

RecordFactors == {daily_factors[i].factor_code : i \in 1..Len(daily_factors)}

DenseRowsOf(d, f) ==
  {i \in 1..Len(factor_ts) :
     factor_ts[i].date = d /\ factor_ts[i].factor_code = f}

\* C2: for a non-empty record table and start_date <= end_date the dense
\* series has exactly one row for each (day, factor) with day in
\* [start_date, end_date] and factor occurring in the records, and no other
\* row.
C2_OneRowPerDayAndFactor ==
  (Densified /\ daily_factors # << >> /\ start_date <= end_date) =>
    /\ \A d \in start_date..end_date, f \in RecordFactors :
         Cardinality(DenseRowsOf(d, f)) = 1
    /\ \A i \in 1..Len(factor_ts) :
         /\ factor_ts[i].date \in start_date..end_date
         /\ factor_ts[i].factor_code \in RecordFactors

\* two factors, a range of several days and a record dated outside it
C2_Witness ==
  /\ Densified
  /\ Cardinality(RecordFactors) = 2
  /\ start_date < end_date
  /\ \E i \in 1..Len(daily_factors) : daily_factors[i].date < start_date
  /\ Len(factor_ts) = 2 * (end_date - start_date + 1)

----------------------------------------------------------------------------
(* Properties of the aligner *)

Aligned == pc \in {"curve", "rank", "done"}

\* the dates of the price series that have a known price
KnownDates ==
  {price_data[i].date : i \in {j \in 1..Len(price_data) :
                                 price_data[j].gold_price # NaN}}

KnownPrice(d) ==
  price_data[CHOOSE i \in 1..Len(price_data) : price_data[i].date = d]
    .gold_price

HasEntry(d) == \E i \in 1..Len(price_data) : price_data[i].date = d

SameFraction(a, b) ==
  /\ (a.den = 0) = (b.den = 0)
  /\ a.num * b.den = b.num * a.den

\* C3: a row dated before the first date with a known price carries no
\* price, whatever its factor.
C3_NoPriceBeforeFirstKnown ==
  Aligned =>
    \A i \in 1..Len(aligned_data) :
      (\A d \in KnownDates : aligned_data[i].date < d) =>
        aligned_data[i].gold_price = NaN

\* C4 as claimed: a row whose date has no entry in the price series but is
\* later than some date with a known price carries the price of the latest
\* earlier date with a known price.
C4_FilledFromLatestKnownDate ==
  Aligned =>
    \A i \in 1..Len(aligned_data) :
      LET earlier == {d \in KnownDates : d < aligned_data[i].date}
      IN  (~HasEntry(aligned_data[i].date) /\ earlier # {}) =>
            aligned_data[i].gold_price =
              KnownPrice(CHOOSE d \in earlier : \A x \in earlier : x <= d)

\* C4 amended: the same, for the dates of the dense series: a row without a
\* price entry that follows, in the series, a date with a known price
\* carries the price of the latest such date.
C4_FilledFromLatestKnownDateOfSeries ==
  Aligned =>
    \A i \in 1..Len(aligned_data) :
      LET earlier == {d \in KnownDates :
                        d < aligned_data[i].date /\ d >= start_date}
      IN  (~HasEntry(aligned_data[i].date) /\ earlier # {}) =>
            aligned_data[i].gold_price =
              KnownPrice(CHOOSE d \in earlier : \A x \in earlier : x <= d)

\* a filled row of the second factor, two days after the last known price
C4_Witness ==
  /\ Aligned
  /\ \E i \in 1..Len(aligned_data) :
       /\ aligned_data[i].factor_code # aligned_data[1].factor_code
       /\ ~HasEntry(aligned_data[i].date)
       /\ ~HasEntry(aligned_data[i].date - 1)
       /\ aligned_data[i].date - 2 \in KnownDates
       /\ aligned_data[i].date - 2 >= start_date
       /\ aligned_data[i].gold_price = KnownPrice(aligned_data[i].date - 2)

SameFactorRow(a, b) ==
  /\ a.date = b.date
  /\ a.factor_code = b.factor_code
  /\ a.score = b.score
  /\ a.intensity = b.intensity
  /\ a.event_count = b.event_count

KeepsEveryRow ==
  /\ Len(aligned_data) = Len(factor_ts)
  /\ \A i \in 1..Len(factor_ts) : SameFactorRow(aligned_data[i], factor_ts[i])

C6_PriceIsFactorIndependent ==
  Aligned =>
    \A i \in 1..Len(aligned_data), j \in 1..Len(aligned_data) :
      aligned_data[i].date = aligned_data[j].date =>
        /\ aligned_data[i].gold_price = aligned_data[j].gold_price
        /\ SameFraction(aligned_data[i].price_change_pct,
                        aligned_data[j].price_change_pct)

----------------------------------------------------------------------------
(* Properties of the influence curve *)

CurveDone == pc \in {"rank", "done"}

CurveDates == {influence_curve[i].date : i \in 1..Len(influence_curve)}

CurveRowsOn(d) ==
  {i \in 1..Len(influence_curve) : influence_curve[i].date = d}

\* the sum of all factors' rolling_intensity on a date, in 1e-4 units
RollingTotal(d) ==
  SetSum(CurveRowsOn(d),
         [i \in 1..Len(influence_curve) |->
            influence_curve[i].rolling_intensity])

\* the normalized_influence values of one date share their denominator; the
\* numerator of their sum
SumNum(d) ==
  SetSum(CurveRowsOn(d),
         [i \in 1..Len(influence_curve) |->
            influence_curve[i].normalized_influence.num])

CommonDen(d) ==
  influence_curve[CHOOSE i \in CurveRowsOn(d) : TRUE].normalized_influence.den

SharesDen(d) ==
  \A i \in CurveRowsOn(d) :
    influence_curve[i].normalized_influence.den = CommonDen(d)

\* | 1 - sum of normalized_influence | <= 1e-4
SumIsOneWithinTolerance(d) ==
  /\ SharesDen(d)
  /\ CommonDen(d) > 0
  /\ Abs(CommonDen(d) - SumNum(d)) <= CommonDen(d) \div 10000

HasNonzeroRolling(d) ==
  \E i \in CurveRowsOn(d) : influence_curve[i].rolling_intensity # 0

\* C1 as claimed: on every date with a nonzero rolling_intensity the
\* normalized_influence of all factors sum to 1 within 1e-4.
C1_NormalizedSumIsOne ==
  CurveDone =>
    \A d \in CurveDates : HasNonzeroRolling(d) => SumIsOneWithinTolerance(d)

\* C1 amended: the sum is 1 within 1e-4 on every date whose rolling
\* intensities total at least 0.01 (100 units); on a date with a smaller
\* nonzero total T the sum is T / (T + 1e-6), further than 1e-4 from 1.
C1_NormalizedSumIsOneFromOneHundredth ==
  CurveDone =>
    \A d \in CurveDates :
      /\ RollingTotal(d) >= 100 => SumIsOneWithinTolerance(d)
      /\ (HasNonzeroRolling(d) /\ RollingTotal(d) < 100) =>
           /\ SharesDen(d)
           /\ SumNum(d) * (RollingTotal(d) * EpsInv + 1)
                = RollingTotal(d) * EpsInv * CommonDen(d)
           /\ ~SumIsOneWithinTolerance(d)

\* a date on which two factors roll up two days to a total of exactly 0.01,
\* and a date with a smaller total
C1_Witness ==
  /\ CurveDone
  /\ window_days = 2
  /\ \E d \in CurveDates :
       /\ RollingTotal(d) >= 100
       /\ \A i \in CurveRowsOn(d) : influence_curve[i].rolling_intensity > 0
       /\ Cardinality(CurveRowsOn(d)) = 2
       /\ \E i \in 1..Len(aligned_data) :
            aligned_data[i].date = d /\ aligned_data[i].intensity = 0
  /\ \E d \in CurveDates : HasNonzeroRolling(d) /\ RollingTotal(d) < 100

\* the rows of one factor in the aligned table
AlignedRowsOf(f) ==
  {j \in 1..Len(aligned_data) : aligned_data[j].factor_code = f}

\* the position of a date among the factor's rows in ascending date order
RankOf(f, d) == Cardinality({j \in AlignedRowsOf(f) : aligned_data[j].date <= d})

AlignedIntensity == [j \in 1..Len(aligned_data) |-> aligned_data[j].intensity]

\* C11: the rolling_intensity of a factor's k-th row in ascending date order
\* is the sum of intensity over its rows max(1, k - window_days + 1)..k; so
\* the intensity of a day counts on that day and the next window_days - 1
\* days only.
C11_RollingIsTrailingWindowSum ==
  CurveDone =>
    \A i \in 1..Len(influence_curve) :
      LET f == influence_curve[i].factor_code
          d == influence_curve[i].date
          k == RankOf(f, d)
          lo == IF k - window_days + 1 < 1 THEN 1 ELSE k - window_days + 1
      IN  /\ influence_curve[i].rolling_intensity =
               SetSum({j \in AlignedRowsOf(f) :
                         RankOf(f, aligned_data[j].date) \in lo..k},
                      AlignedIntensity)
          /\ influence_curve[i].rolling_intensity =
               SetSum({j \in AlignedRowsOf(f) :
                         /\ aligned_data[j].date <= d
                         /\ d <= aligned_data[j].date + window_days - 1},
                      AlignedIntensity)

\* an intensity of day 1 that counts on day 2 and has left the window on
\* day 3
C11_Witness ==
  /\ CurveDone
  /\ window_days = 2
  /\ \E f \in {FactorCodes[1], FactorCodes[2]} :
       /\ \E j \in AlignedRowsOf(f) :
            aligned_data[j].date = 1 /\ aligned_data[j].intensity > 0
       /\ \E i \in 1..Len(influence_curve) :
            /\ influence_curve[i].factor_code = f
            /\ influence_curve[i].date = 2
            /\ influence_curve[i].rolling_intensity > 0
       /\ \E i \in 1..Len(influence_curve) :
            /\ influence_curve[i].factor_code = f
            /\ influence_curve[i].date = 3
            /\ influence_curve[i].rolling_intensity = 0

\* the curve the four stages compute from a batch, for the range, prices and
\* window of the run
PipelineCurve(batch) ==
  calculate_factor_influence_curve(
    align_with_price(
      create_factor_timeseries(aggregate_factor_scores_by_day(batch),
                               start_date, end_date, start_time),
      price_data),
    window_days)

CurveFactors == {influence_curve[i].factor_code : i \in 1..Len(influence_curve)}

\* a factor of the curve whose intensity is 0 on every day of the range
ZeroFactor(z) ==
  /\ z \in CurveFactors
  /\ \A j \in AlignedRowsOf(z) : aligned_data[j].intensity = 0

\* the batch without the events that carry a tag of factor z
WithoutFactor(batch, z) ==
  SelectSeq(batch,
            LAMBDA e : \A n \in 1..Len(e.factor_tags) :
                         e.factor_tags[n].factor # z)

\* the events of z carry no tag of another factor, so that leaving them out
\* removes z and nothing else
OwnEvents(z) ==
  \A n \in 1..Len(events) :
    LET tags == events[n].factor_tags
    IN  (\E a \in 1..Len(tags) : tags[a].factor = z)
          => \A a \in 1..Len(tags) : tags[a].factor = z

SameInfluence(a, b) ==
  /\ a.date = b.date
  /\ a.factor_code = b.factor_code
  /\ a.rolling_intensity = b.rolling_intensity
  /\ a.normalized_influence = b.normalized_influence

\* C12: a factor whose intensity is 0 on every day of the range has exactly
\* one row on every date of the curve, with rolling_intensity 0 and
\* normalized_influence 0; and the other factors have the rolling_intensity
\* and normalized_influence, on every date, that they have in the run on the
\* batch without that factor's events.
C12_ZeroFactorIsNeutral ==
  CurveDone =>
    \A z \in CurveFactors :
      (ZeroFactor(z) /\ OwnEvents(z)) =>
        /\ \A d \in CurveDates :
             /\ Cardinality({i \in CurveRowsOn(d) :
                               influence_curve[i].factor_code = z}) = 1
             /\ \A i \in CurveRowsOn(d) :
                  influence_curve[i].factor_code = z =>
                    /\ influence_curve[i].rolling_intensity = 0
                    /\ influence_curve[i].normalized_influence.num = 0
                    /\ influence_curve[i].normalized_influence.den > 0
        /\ LET without == PipelineCurve(WithoutFactor(events, z))
           IN  /\ \A i \in 1..Len(influence_curve) :
                    influence_curve[i].factor_code # z =>
                      \E k \in 1..Len(without) :
                        SameInfluence(influence_curve[i], without[k])
               /\ \A k \in 1..Len(without) :
                    \E i \in 1..Len(influence_curve) :
                      SameInfluence(influence_curve[i], without[k])

\* a zero factor next to a factor with a nonzero rolling_intensity
C12_Witness ==
  /\ CurveDone
  /\ \E z \in CurveFactors :
       /\ ZeroFactor(z)
       /\ OwnEvents(z)
       /\ \E i \in 1..Len(influence_curve) :
            /\ influence_curve[i].factor_code # z
            /\ influence_curve[i].rolling_intensity > 0
            /\ influence_curve[i].normalized_influence.num > 0
       /\ \E d \in CurveDates : Cardinality(CurveRowsOn(d)) = 2

----------------------------------------------------------------------------
(* Properties of the ranker *)

Ranked == pc = "done"

\* the rows of the curve that are strictly later than the maximum date
\* minus recent_days
WindowRows ==
  {i \in 1..Len(influence_curve) :
     \A j \in 1..Len(influence_curve) :
       influence_curve[i].date > influence_curve[j].date - recent_days}

WindowRowsOf(f) == {i \in WindowRows : influence_curve[i].factor_code = f}

WindowFactors == {influence_curve[i].factor_code : i \in WindowRows}

RECURSIVE SetFracSum(_)
SetFracSum(S) ==
  IF S = {} THEN [num |-> << >>, den |-> BigOf(1)]
  ELSE LET i == CHOOSE k \in S : TRUE
       IN  FracAdd(SetFracSum(S \ {i}),
                   FracOf(influence_curve[i].normalized_influence))

\* the average of normalized_influence over the window rows of f
WindowAverage(f) ==
  LET total == SetFracSum(WindowRowsOf(f))
  IN  [num |-> total.num,
       den |-> BigMul(total.den, BigOf(Cardinality(WindowRowsOf(f))))]

Returned == {top_factors[k].factor_code : k \in 1..Len(top_factors)}

\* C13: for a non-empty curve the ranking holds factors that have a row
\* strictly later than (maximum date - recent_days), each at most once and
\* with the average of its normalized_influence over those rows, in
\* non-increasing order of average; it has min(top_n, number of such
\* factors) entries, and no omitted factor has a strictly higher average
\* than a returned one.
C13_TopFactorsOfRecentWindow ==
  (Ranked /\ influence_curve # << >>) =>
    /\ \A k \in 1..Len(top_factors) :
         /\ top_factors[k].factor_code \in WindowFactors
         /\ FracEq(top_factors[k].avg_influence,
                   WindowAverage(top_factors[k].factor_code))
    /\ \A k \in 1..(Len(top_factors) - 1) :
         ~FracLess(top_factors[k].avg_influence,
                   top_factors[k + 1].avg_influence)
    /\ \A k, m \in 1..Len(top_factors) :
         top_factors[k].factor_code = top_factors[m].factor_code => k = m
    /\ Len(top_factors) <= top_n
    /\ Len(top_factors) = top_n \/ Returned = WindowFactors
    /\ \A f \in WindowFactors \ Returned :
         \A k \in 1..Len(top_factors) :
           ~FracLess(top_factors[k].avg_influence, WindowAverage(f))

\* a ranking cut to one entry, over the last two of three dates, that leaves
\* out a factor with a lower average
C13_Witness ==
  /\ Ranked
  /\ top_n = 1
  /\ recent_days = 2
  /\ Cardinality(CurveDates) = 3
  /\ Len(top_factors) = 1
  /\ \E f \in WindowFactors \ Returned :
       /\ FracLess(WindowAverage(f), top_factors[1].avg_influence)
       /\ top_factors[1].avg_influence.num # << >>
       /\ WindowAverage(f).num # << >>
  /\ \E i \in 1..Len(influence_curve) :
       i \notin WindowRows /\ influence_curve[i].rolling_intensity > 0

\* C14: factors with equal averages are ranked by factor code ascending, in
\* the list and at the top_n cut-off (a factor left out never ties with a
\* returned factor of a higher code).
C14_TiesByFactorCode ==
  Ranked =>
    /\ \A k, m \in 1..Len(top_factors) :
         (k < m /\ FracEq(top_factors[k].avg_influence,
                          top_factors[m].avg_influence))
           => CodeRank(top_factors[k].factor_code)
                < CodeRank(top_factors[m].factor_code)
    /\ \A f \in WindowFactors \ Returned :
         \A k \in 1..Len(top_factors) :
           FracEq(top_factors[k].avg_influence, WindowAverage(f))
             => CodeRank(top_factors[k].factor_code) < CodeRank(f)

----------------------------------------------------------------------------
(* Properties of empty tables *)

\* no event of the batch yields a record
NoRecord ==
  \A n \in 1..Len(events) :
    ~Parseable(events[n]) \/ events[n].factor_tags = << >>

\* C15: every stage turns an empty input into an empty output: the
\* aggregator an empty event list, the densifier an empty record table (for
\* every range), the aligner an empty dense series, the curve builder an
\* empty aligned table and the ranker an empty curve; and the chain run on a
\* batch of which no event yields a record completes with an empty ranking.
C15_EmptyInEmptyOut ==
  /\ (Aggregated /\ events = << >>) => daily_factors = << >>
  /\ (Densified /\ daily_factors = << >>) => factor_ts = << >>
  /\ (Aligned /\ factor_ts = << >>) => aligned_data = << >>
  /\ (CurveDone /\ aligned_data = << >>) => influence_curve = << >>
  /\ (Ranked /\ influence_curve = << >>) => top_factors = << >>
  /\ (Aggregated /\ NoRecord) => daily_factors = << >>
  /\ (Ranked /\ NoRecord) =>
       /\ factor_ts = << >>
       /\ aligned_data = << >>
       /\ influence_curve = << >>
       /\ top_factors = << >>

\* the chain has run to its end on a batch of an event with a tag and no
\* date and an event with a date and no tag
C15_Witness ==
  /\ Ranked
  /\ NoRecord
  /\ price_data # << >>
  /\ \E n \in 1..Len(events) :
       ~Parseable(events[n]) /\ events[n].factor_tags # << >>
  /\ \E n \in 1..Len(events) :
       Parseable(events[n]) /\ events[n].factor_tags = << >>
  /\ top_factors = << >>

----------------------------------------------------------------------------
(* Properties of repeated runs and of the stages' inputs *)

C17_StagesLeaveInputsUnchanged ==
  [][/\ Aggregate => UNCHANGED events
     /\ Densify => UNCHANGED <<daily_factors, start_date, end_date, start_time>>
     /\ Align => UNCHANGED <<factor_ts, price_data, price_date_dtype>>
     /\ Curve => UNCHANGED <<aligned_data, window_days>>
     /\ TopFactors => UNCHANGED <<influence_curve, top_n, recent_days>>]_vars

----------------------------------------------------------------------------
(* Properties of the date an event is grouped under *)

\* the tags of factor f on events whose instant lies on the UTC day d
TagsOfUtcDay(d, f) ==
  {ij \in AllTags :
     /\ Parseable(events[ij[1]])
     /\ events[ij[1]].timestamp_utc.utc_date = d
     /\ events[ij[1]].factor_tags[ij[2]].factor = f}

\* C18: every event is grouped under the UTC calendar date of its
\* timestamp: each record holds the tags of the events of its UTC day, and
\* every tag of a dated event is in the record of the event's UTC day.
C18_GroupedByUtcDate ==
  Aggregated =>
    /\ \A k \in 1..Len(daily_factors) :
         daily_factors[k].event_count =
           Cardinality(TagsOfUtcDay(daily_factors[k].date,
                                    daily_factors[k].factor_code))
    /\ \A ij \in AllTags :
         Parseable(events[ij[1]]) =>
           \E k \in 1..Len(daily_factors) :
             /\ daily_factors[k].date = events[ij[1]].timestamp_utc.utc_date
             /\ daily_factors[k].factor_code =
                  events[ij[1]].factor_tags[ij[2]].factor

----------------------------------------------------------------------------
(* Properties of the dense rows *)

RecordsOf(d, f) ==
  {k \in 1..Len(daily_factors) :
     daily_factors[k].date = d /\ daily_factors[k].factor_code = f}

\* C19: a dense row of a (day, factor) pair the record table has a record
\* for carries that record's score, intensity and event_count, and any
\* other dense row carries zeros; for every range.
C19_DenseRowCarriesItsRecord ==
  Densified =>
    \A i \in 1..Len(factor_ts) :
      LET row == factor_ts[i]
          recs == RecordsOf(row.date, row.factor_code)
      IN  /\ \A k \in recs :
               /\ row.score = daily_factors[k].score
               /\ row.intensity = daily_factors[k].intensity
               /\ row.event_count = daily_factors[k].event_count
          /\ recs = {} =>
               row.score = 0 /\ row.intensity = 0 /\ row.event_count = 0

----------------------------------------------------------------------------
(* Properties of the signs *)

WithinIntensity(row) ==
  /\ -row.intensity <= row.score
  /\ row.score <= row.intensity
  /\ row.intensity >= 0

\* C20: in every record of the aggregator and every row of the dense
\* series -intensity <= score <= intensity and intensity >= 0; event_count
\* is at least 1 in a record and at least 0 in a dense row; whatever the
\* strengths of the tags.
C20_ScoreWithinIntensity ==
  /\ Aggregated =>
       \A k \in 1..Len(daily_factors) :
         WithinIntensity(daily_factors[k]) /\ daily_factors[k].event_count >= 1
  /\ Densified =>
       \A i \in 1..Len(factor_ts) :
         WithinIntensity(factor_ts[i]) /\ factor_ts[i].event_count >= 0

\* a record of two contributions of opposite sign, one of them from a
\* negative strength and one from a strength above 1, next to dense rows of
\* zeros
C20_Witness ==
  /\ Densified
  /\ \E ij \in AllTags : events[ij[1]].factor_tags[ij[2]].strength < 0
  /\ \E ij \in AllTags : events[ij[1]].factor_tags[ij[2]].strength > 10
  /\ \E k \in 1..Len(daily_factors) :
       /\ daily_factors[k].score # 0
       /\ Abs(daily_factors[k].score) < daily_factors[k].intensity
       /\ daily_factors[k].event_count = 2
  /\ \E i \in 1..Len(factor_ts) :
       factor_ts[i].intensity = 0 /\ factor_ts[i].event_count = 0
  /\ \E i \in 1..Len(factor_ts) : factor_ts[i].intensity > 0

----------------------------------------------------------------------------
(* Properties of the normalization *)

AllRollingZero(d) ==
  \A i \in CurveRowsOn(d) : influence_curve[i].rolling_intensity = 0

\* C21: intensities are never negative, and then every row of the influence
\* curve has 0 <= normalized_influence < 1 over a denominator that is not
\* zero; on a date where every factor's rolling_intensity is 0 every
\* normalized_influence is exactly 0; within one date equal rolling_intensity
\* gives equal normalized_influence and a strictly larger rolling_intensity
\* a strictly larger normalized_influence (the rows of a date share their
\* denominator, so the numerators decide).
C21_NormalizedWithinUnitAndMonotone ==
  CurveDone =>
    /\ \A i \in 1..Len(aligned_data) : aligned_data[i].intensity >= 0
    /\ \A i \in 1..Len(influence_curve) :
         LET row == influence_curve[i]
             q == row.normalized_influence
         IN  /\ row.rolling_intensity >= 0
             /\ q.den > 0
             /\ 0 <= q.num
             /\ q.num < q.den
             /\ AllRollingZero(row.date) => q.num = 0
    /\ \A d \in CurveDates :
         /\ SharesDen(d)
         /\ \A i, j \in CurveRowsOn(d) :
              LET a == influence_curve[i]
                  b == influence_curve[j]
              IN  /\ a.rolling_intensity = b.rolling_intensity
                       => a.normalized_influence.num
                            = b.normalized_influence.num
                  /\ a.rolling_intensity > b.rolling_intensity
                       => a.normalized_influence.num
                            > b.normalized_influence.num

\* a curve with a date on which two factors are both at 0 and a date on which
\* two factors have different positive rolling intensities
C21_Witness ==
  /\ CurveDone
  /\ \E d \in CurveDates :
       AllRollingZero(d) /\ Cardinality(CurveRowsOn(d)) = 2
  /\ \E d \in CurveDates : \E i, j \in CurveRowsOn(d) :
       /\ influence_curve[i].rolling_intensity
            > influence_curve[j].rolling_intensity
       /\ influence_curve[j].rolling_intensity > 0

----------------------------------------------------------------------------
(* Properties of the densifier's range *)

InRangeRecords ==
  {k \in 1..Len(daily_factors) :
     daily_factors[k].date \in start_date..end_date}

DenseRows == 1..Len(factor_ts)

\* C22: the range is the caller's alone.  A record dated outside
\* [start_date, end_date] adds no row, yet its factor has a row on every day
\* of the range; and the totals of score, intensity and event_count over the
\* dense series are the totals over the in-range records, factor by factor.
C22_OutOfRangeRecordsAreDropped ==
  (Densified /\ daily_factors # << >>) =>
    /\ \A i \in DenseRows : factor_ts[i].date \in start_date..end_date
    /\ \A f \in RecordFactors : \A d \in start_date..end_date :
         DenseRowsOf(d, f) # {}
    /\ \A f \in RecordFactors :
         LET rows == {i \in DenseRows : factor_ts[i].factor_code = f}
             recs == {k \in InRangeRecords :
                        daily_factors[k].factor_code = f}
         IN  /\ SetSum(rows, [i \in DenseRows |-> factor_ts[i].score])
                  = SetSum(recs, [k \in 1..Len(daily_factors) |->
                                    daily_factors[k].score])
             /\ SetSum(rows, [i \in DenseRows |-> factor_ts[i].intensity])
                  = SetSum(recs, [k \in 1..Len(daily_factors) |->
                                    daily_factors[k].intensity])
             /\ SetSum(rows, [i \in DenseRows |-> factor_ts[i].event_count])
                  = SetSum(recs, [k \in 1..Len(daily_factors) |->
                                    daily_factors[k].event_count])

----------------------------------------------------------------------------
(* Properties of run_full_analysis *)

AnalysisOver == analysis \in {"empty", "results", "raised"}

InputsEmpty == price_data = << >> \/ news_list = 0 \/ events = << >>

\* C23: run_full_analysis treats empty pipeline results as valid.  With
\* market data, news and events all non-empty and no event yielding a
\* factor-day record it does not raise, and the results it returns have an
\* empty influence curve and empty top_factors; it returns {} exactly when
\* the market data, the news list or the event list is empty.
C23_EmptyPipelineResultsAreValid ==
  AnalysisOver =>
    /\ (~InputsEmpty /\ NoRecord) =>
         /\ analysis = "results"
         /\ influence_curve = << >>
         /\ top_factors = << >>
    /\ analysis = "empty" <=> InputsEmpty

====
